---- MODULE Spec2Model ----
(***************************************************************************)
(* PowerTraxxService (tapiriik/services/PowerTraxx/powertraxx.py): the     *)
(* OAuth token lifecycle (_getAuthHeaders over the shared _tokenCache and  *)
(* the service record's Authorization) run by concurrent callers, the      *)
(* authenticated operations built on it, the decode path of                *)
(* _downloadActivity and the encode path of UploadActivity.                *)
(*                                                                         *)
(* Time is in seconds.  Access and refresh tokens are numbered: the        *)
(* provider hands out a fresh number with every successful exchange.       *)
(***************************************************************************)
EXTENDS Integers, Sequences, FiniteSets, TLC

\* ---------------------------------------------------------------- bounds
\* Successful token exchanges the provider answers in one run.
MaxIssued == 2
\* Clock advances in one run.
MaxTicks == 1
\* Longest point stream of an activity-detail response (SpecTranslate).
MaxPoints == 4

\* Concurrent callers and the accounts they act for.
Procs == {1, 2}
Accounts == {1, 2}
\* How far the clock may advance at once: to the expiry of a 60-second token,
\* past the cache lifetime.
TickSteps == {30, 1740}
\* expires_in values the provider declares.
ExpiresInValues == {60, 3600}
\* HTTP status codes the token endpoint answers an exchange with.
RefreshStatusCodes == {200, 399, 400, 499, 500}
\* HTTP status codes the activity API answers with.
ApiStatusCodes == {200, 204, 401, 403, 500}
\* The caller of SpecOps: one thread, as the sync scheduler runs an account.
Caller == CHOOSE p \in Procs : TRUE

\* ------------------------------------------------------- program constants
\* 30 seconds buffer so the token does not expire mid request.
ExpiryBuffer == 30
\* SessionCache("powertraxx", lifetime=timedelta(minutes=29)), in seconds.
CacheLifetime == 1740

\* Python's None for a token, and for a token item.
NoToken == 0
NoRecord == [AccessToken |-> NoToken, RefreshToken |-> NoToken, ExpirationDate |-> 0]
NoEntry == [item |-> NoRecord, setAt |-> 0]

VARIABLES
    now,         \* datetime.utcnow()
    ticks,       \* clock advances so far
    issued,      \* tokens the provider has issued through refresh exchanges
    tokenCache,  \* _tokenCache: external id -> entry
    binding,     \* serviceRecord.Authorization of each account
    pc,          \* each caller's position
    op,          \* the operation a caller runs
    acct,        \* serviceRecord.ExternalID of the caller's service record
    authInfo,    \* _getAuthHeaders' local authInfo
    refresh,     \* the refresh_token a caller submitted in its exchange
    expiresIn,   \* response.json()["expires_in"] of the caller's exchange
    tokenItem,   \* _getAuthHeaders' local tokenItem
    tokenStatus, \* status code of the caller's token exchange (0: none)
    headers,     \* the token of the headers _getAuthHeaders returned (NoToken: none)
    apiStatus,   \* status code of the caller's API request (0: none)
    sent,        \* the requests the caller's current invocation has issued
    activity,    \* the activity object passed to the operation
    retval,      \* what the operation returned
    result,      \* how the operation ended
    dl,          \* SpecTranslate: one activity-detail response and its decoding
    ul           \* SpecUpload: one activity and its upload

vars == <<now, ticks, issued, tokenCache, binding, pc, op, acct, authInfo, refresh,
          expiresIn, tokenItem, tokenStatus, headers, apiStatus, sent, activity,
          retval, result, dl, ul>>

shared == <<now, ticks, issued, tokenCache, binding>>

\* ------------------------------------------------------------ exceptions
NoError == [exc |-> "none", block |-> FALSE, uex |-> "none", intervention |-> FALSE]

\* APIException(message, block=False, user_exception=None).
APIException(block, uex, intervention) ==
    [exc |-> "APIException", block |-> block, uex |-> uex, intervention |-> intervention]

\* An exception the module does not raise itself (AttributeError, TypeError, HTTPError).
PythonError(name) ==
    [exc |-> name, block |-> FALSE, uex |-> "none", intervention |-> FALSE]

Pending == [kind |-> "none", err |-> NoError]
Returned == [kind |-> "ok", err |-> NoError]
Raised(e) == [kind |-> "error", err |-> e]

\* --------------------------------------------------------- the Token Store
\* SessionCache.Get: the entry, unless its lifetime has run out.
CacheGet(cache, key, t) ==
    IF cache[key] # NoEntry /\ t - cache[key].setAt < CacheLifetime
    THEN cache[key].item
    ELSE NoRecord

\* SessionCache.Set: the entry lives CacheLifetime seconds from now on.
CacheSet(cache, key, item, t) ==
    [cache EXCEPT ![key] = [item |-> item, setAt |-> t]]

\* SessionCache.Delete.
CacheDelete(cache, key) ==
    [cache EXCEPT ![key] = NoEntry]

\* Service.EnsureServiceRecordWithAuth: the service record keeps the new credential.
EnsureServiceRecordWithAuth(auth, key, item) ==
    [auth EXCEPT ![key] = item]

\* -------------------------------------------------------- _getAuthHeaders
\* expiration_date = utcnow() + timedelta(seconds=expires_in - 30)
ExpirationDate(t, e) == t + (e - ExpiryBuffer)

\* _getTokenFromResponse: the token item of a 200 response.
TokenFromResponse(token, refreshToken, e, t) ==
    [AccessToken |-> token, RefreshToken |-> refreshToken,
     ExpirationDate |-> ExpirationDate(t, e)]

\* exp_date < datetime.utcnow()
TokenExpired(expDate, t) == expDate < t

\* token = serviceRecord.Authorization["AccessToken"] when authInfo is truthy, else None.
CachedToken(info, auth) == IF info # NoRecord THEN auth.AccessToken ELSE NoToken

\* if not token or exp_date < datetime.utcnow()
NeedsRefresh(info, auth, t) ==
    \/ CachedToken(info, auth) = NoToken
    \/ TokenExpired(auth.ExpirationDate, t)

\* A classification that lets status 400 through as a generic failure.
RefreshErrorAbove400(status) ==
    IF status > 400 /\ status < 500
    THEN APIException(TRUE, "Authorization", TRUE)
    ELSE APIException(FALSE, "none", FALSE)

\* The exception a non-200 exchange raises.
RefreshError(status) ==
    IF status >= 400 /\ status < 500
    THEN APIException(TRUE, "Authorization", TRUE)
    ELSE APIException(FALSE, "none", FALSE)

\* token = tokenItem.AccessToken: tokenItem is a dict, and a dict has no such
\* attribute, so the access raises AttributeError.
TokenAttribute(item) == [raised |-> TRUE, value |-> NoToken]

\* The two tokens of the provider's next 200 response.
NextToken(n) == Cardinality(Accounts) + n + 1

\* ------------------------------------------------------------- the actions
Locals == <<authInfo, refresh, expiresIn, tokenItem>>

\* A caller leaves the operation: its locals go out of scope.
Leave(p, r) ==
    /\ pc' = [pc EXCEPT ![p] = "idle"]
    /\ result' = [result EXCEPT ![p] = r]
    /\ authInfo' = [authInfo EXCEPT ![p] = NoRecord]
    /\ refresh' = [refresh EXCEPT ![p] = NoToken]
    /\ tokenItem' = [tokenItem EXCEPT ![p] = NoRecord]
    /\ expiresIn' = [expiresIn EXCEPT ![p] = 0]

\* return {"Authorization": "Bearer %s" % token}: the operation goes on to its
\* request; a bare _getAuthHeaders call is over.
ReturnHeaders(p, token) ==
    /\ headers' = [headers EXCEPT ![p] = token]
    /\ IF op[p] = "GetAuthHeaders"
       THEN Leave(p, Returned)
       ELSE /\ pc' = [pc EXCEPT ![p] = "api"]
            /\ UNCHANGED <<Locals, result>>

\* authInfo = self._tokenCache.Get(serviceRecord.ExternalID)
AuthGet(p) ==
    /\ pc[p] = "auth_get"
    /\ authInfo' = [authInfo EXCEPT ![p] = CacheGet(tokenCache, acct[p], now)]
    /\ pc' = [pc EXCEPT ![p] = "auth_check"]
    /\ UNCHANGED <<shared, op, acct, refresh, expiresIn, tokenItem, tokenStatus,
                   headers, apiStatus, sent, activity, retval, result, dl, ul>>

\* The cached credential is read from the service record and tested against the clock.
AuthCheck(p) ==
    /\ pc[p] = "auth_check"
    /\ IF NeedsRefresh(authInfo[p], binding[acct[p]], now)
       THEN /\ pc' = [pc EXCEPT ![p] = "auth_post"]
            /\ UNCHANGED headers
            /\ UNCHANGED <<Locals, result>>
       ELSE ReturnHeaders(p, CachedToken(authInfo[p], binding[acct[p]]))
    /\ UNCHANGED <<shared, op, acct, tokenStatus, apiStatus, sent, activity, retval, dl, ul>>

\* requests.post(BaseUrl + "/token") with the service record's refresh token.
AuthPost(p) ==
    /\ pc[p] = "auth_post"
    /\ refresh' = [refresh EXCEPT ![p] = binding[acct[p]].RefreshToken]
    /\ sent' = [sent EXCEPT ![p] = Append(@, "token")]
    /\ pc' = [pc EXCEPT ![p] = "auth_resp"]
    /\ UNCHANGED <<shared, op, acct, authInfo, expiresIn, tokenItem, tokenStatus,
                   headers, apiStatus, activity, retval, result, dl, ul>>

\* A handler that swallows the failure and goes on to the request without headers.
AuthFailSwallowed(p, status) ==
    /\ pc[p] = "auth_resp"
    /\ status # 200
    /\ tokenStatus' = [tokenStatus EXCEPT ![p] = status]
    /\ pc' = [pc EXCEPT ![p] = "api"]
    /\ UNCHANGED <<shared, op, acct, Locals, result, headers, apiStatus, sent,
                   activity, retval, dl, ul>>

\* A handler that sends the exchange again after a failure.
AuthFailRetrying(p, status) ==
    /\ pc[p] = "auth_resp"
    /\ status # 200
    /\ tokenStatus' = [tokenStatus EXCEPT ![p] = status]
    /\ pc' = [pc EXCEPT ![p] = "auth_post"]
    /\ UNCHANGED <<shared, op, acct, Locals, result, headers, apiStatus, sent,
                   activity, retval, dl, ul>>

\* A handler that drops the account's cached record when the exchange fails.
AuthFailEvicting(p, status) ==
    /\ pc[p] = "auth_resp"
    /\ status # 200
    /\ tokenStatus' = [tokenStatus EXCEPT ![p] = status]
    /\ tokenCache' = CacheDelete(tokenCache, acct[p])
    /\ Leave(p, Raised(RefreshError(status)))
    /\ UNCHANGED <<now, ticks, issued, binding, op, acct, headers, apiStatus, sent,
                   activity, retval, dl, ul>>

\* The exchange is answered with a status other than 200.
AuthFail(p, status) ==
    /\ pc[p] = "auth_resp"
    /\ status # 200
    /\ tokenStatus' = [tokenStatus EXCEPT ![p] = status]
    /\ Leave(p, Raised(RefreshError(status)))
    /\ UNCHANGED <<shared, op, acct, headers, apiStatus, sent, activity, retval, dl, ul>>

\* The exchange is answered 200: tokenItem = self._getTokenFromResponse(response).
AuthOk(p, e) ==
    /\ pc[p] = "auth_resp"
    /\ issued < MaxIssued
    /\ issued' = issued + 1
    /\ tokenStatus' = [tokenStatus EXCEPT ![p] = 200]
    /\ expiresIn' = [expiresIn EXCEPT ![p] = e]
    /\ tokenItem' = [tokenItem EXCEPT ![p] =
           TokenFromResponse(NextToken(issued), NextToken(issued), e, now)]
    /\ pc' = [pc EXCEPT ![p] = "auth_set"]
    /\ UNCHANGED <<now, ticks, tokenCache, binding, op, acct, authInfo, refresh,
                   headers, apiStatus, sent, activity, retval, result, dl, ul>>

\* self._tokenCache.Set(serviceRecord.ExternalID, tokenItem)
AuthSet(p) ==
    /\ pc[p] = "auth_set"
    /\ tokenCache' = CacheSet(tokenCache, acct[p], tokenItem[p], now)
    /\ pc' = [pc EXCEPT ![p] = "auth_ensure"]
    /\ UNCHANGED <<now, ticks, issued, binding, op, acct, Locals, tokenStatus,
                   headers, apiStatus, sent, activity, retval, result, dl, ul>>

\* EnsureServiceRecordWithAuth, then token = tokenItem.AccessToken and the return.
AuthEnsure(p) ==
    /\ pc[p] = "auth_ensure"
    /\ binding' = EnsureServiceRecordWithAuth(binding, acct[p], tokenItem[p])
    /\ IF TokenAttribute(tokenItem[p]).raised
       THEN /\ Leave(p, Raised(PythonError("AttributeError")))
            /\ UNCHANGED headers
       ELSE ReturnHeaders(p, TokenAttribute(tokenItem[p]).value)
    /\ UNCHANGED <<now, ticks, issued, tokenCache, op, acct, tokenStatus, apiStatus,
                   sent, activity, retval, dl, ul>>

\* The clock advances.
Tick(d) ==
    /\ ticks < MaxTicks
    /\ ticks' = ticks + 1
    /\ now' = now + d
    /\ UNCHANGED <<issued, tokenCache, binding, pc, op, acct, Locals, tokenStatus,
                   headers, apiStatus, sent, activity, retval, result, dl, ul>>


\* --------------------------------------------- _downloadActivity: decoding
\* JSON null, and Python's None for a string.
Null == "null"
None == "None"

\* A point of the response: its pause marker and its speed in km/h. The fields
\* the loop copies verbatim (distance, location, power, cadence, steps, heart
\* rate, timestamp) travel like Speed and are left out.
PointValues == [Pause : {Null, "p"}, Speed : {0, 36}]

\* The point streams of at most n points.
PointStreams(n) == UNION {[1..k -> PointValues] : k \in 0..n}

\* The activity-detail responses with at most n points.
DetailBodies(n) ==
    [Comment : {"", "ride"}, HasGps : BOOLEAN, IsPublic : BOOLEAN,
     Points : PointStreams(n)]

\* waypoint.Speed = wp["Speed"] / 3.6, exact on the speeds of PointValues.
KmhToMs(s) == (s * 10) \div 36

\* A loop that never infers Resume.
WaypointTypeNoResume(pause, hasLast, lastType) ==
    IF pause # Null THEN "Pause" ELSE "Regular"

\* A loop that infers Resume after any waypoint, whatever its type.
WaypointTypeResumeAfterAny(pause, hasLast, lastType) ==
    IF pause # Null THEN "Pause"
    ELSE IF hasLast THEN "Resume"
    ELSE "Regular"

\* The type the loop gives a waypoint, from its point's pause marker and the
\* waypoint before it (hasLast: lastWaypoint is not None).
WaypointType(pause, hasLast, lastType) ==
    IF pause # Null THEN "Pause"
    ELSE IF hasLast /\ lastType = "Pause" THEN "Resume"
    ELSE "Regular"

\* for wp in list(activityData["Points"]): lap.Waypoints.append(waypoint)
RECURSIVE BuildWaypoints(_, _)
BuildWaypoints(points, waypoints) ==
    IF Len(waypoints) = Len(points) THEN waypoints
    ELSE LET wp == points[Len(waypoints) + 1]
             hasLast == waypoints # <<>>
             lastType == IF hasLast THEN waypoints[Len(waypoints)].Type ELSE "Regular"
             waypoint == [Type |-> WaypointType(wp.Pause, hasLast, lastType),
                          Speed |-> KmhToMs(wp.Speed)]
         IN BuildWaypoints(points, Append(waypoints, waypoint))

\* Activity.CountTotalWaypoints: the waypoints of all laps.
RECURSIVE CountTotalWaypoints(_)
CountTotalWaypoints(laps) ==
    IF laps = <<>> THEN 0
    ELSE Len(laps[1].Waypoints) + CountTotalWaypoints(Tail(laps))

\* Only an activity without waypoints counts as stationary.
IsStationaryWhenEmpty(count) == count < 1

\* activity.Stationary = activity.CountTotalWaypoints() <= 1
IsStationary(count) == count <= 1

\* lap.Waypoints[0].Type = Start; lap.Waypoints[-1].Type = End
TagStartEnd(waypoints) ==
    LET started == [waypoints EXCEPT ![1].Type = "Start"]
    IN [started EXCEPT ![Len(started)].Type = "End"]

\* The activity after a 200 response has been decoded into it.
DecodeActivity(act, body) ==
    LET waypoints == BuildWaypoints(body.Points, <<>>)
        stationary == IsStationary(CountTotalWaypoints(<<[Waypoints |-> waypoints]>>))
    IN [Notes |-> IF body.Comment # "" THEN body.Comment ELSE act.Notes,
        GPS |-> body.HasGps,
        Private |-> ~body.IsPublic,
        Stationary |-> stationary,
        Laps |-> <<[Waypoints |-> IF stationary THEN waypoints
                                  ELSE TagStartEnd(waypoints)]>>]

\* A classification that forgets status 403.
DownloadErrorOnly401(status) ==
    IF status = 401
    THEN APIException(TRUE, "Authorization", TRUE)
    ELSE APIException(FALSE, "none", FALSE)

\* The exception a non-200 activity-detail response raises.
DownloadError(status) ==
    IF status = 401 \/ status = 403
    THEN APIException(TRUE, "Authorization", TRUE)
    ELSE APIException(FALSE, "none", FALSE)

\* _downloadActivity from the response on: the activity and how the call ends.
DownloadOutcome(act, status, body) ==
    IF status # 200
    THEN [activity |-> act, result |-> Raised(DownloadError(status))]
    ELSE [activity |-> DecodeActivity(act, body), result |-> Returned]

\* An activity as DownloadActivityList leaves it: no notes, no laps (None is falsy).
ActivityStub(gps) ==
    [Notes |-> None, GPS |-> gps, Private |-> FALSE, Stationary |-> FALSE, Laps |-> <<>>]

ActivityInputs == {ActivityStub(g) : g \in BOOLEAN}

\* ------------------------------------------------- the other operations
\* mapping powertraxx -> common; a missing key gives Other.
ActivityMappings(sportType) ==
    CASE sportType = "run" -> "Running"
      [] sportType = "bicycle" -> "Cycling"
      [] sportType = "racingbicycle" -> "Cycling"
      [] sportType = "mountainbike" -> "MountainBiking"
      [] sportType = "walking" -> "Walking"
      [] sportType = "hike" -> "Hiking"
      [] sportType = "snowboard" -> "Snowboarding"
      [] sportType = "skialpin" -> "DownhillSkiing"
      [] sportType = "classicskiing" -> "CrossCountrySkiing"
      [] sportType = "skating" -> "Skating"
      [] sportType = "swim" -> "Swimming"
      [] sportType = "elliptical" -> "Elliptical"
      [] sportType = "other" -> "Other"
      [] OTHER -> "Other"

\* for item in items: the activity stubs of DownloadActivityList.
ListActivities(items) ==
    [i \in 1..Len(items) |->
        [ActivityID |-> items[i].Id, Type |-> ActivityMappings(items[i].SportType)]]

\* The bodies of the activity-list responses: not JSON, a JSON object (its keys
\* are strings, and item["Id"] of a string raises TypeError), a JSON list.
ListBodies ==
    {[kind |-> "invalid", items |-> <<>>],
     [kind |-> "object", items |-> <<>>],
     [kind |-> "list", items |-> <<>>],
     [kind |-> "list", items |-> <<[Id |-> "a1", SportType |-> "run"]>>],
     [kind |-> "list", items |-> <<[Id |-> "a1", SportType |-> "yoga"]>>]}

\* DownloadActivityList from the response on; the status code is not looked at.
ListOutcome(status, body) ==
    CASE body.kind = "invalid" ->
           [retval |-> <<>>, result |-> Raised(APIException(FALSE, "none", FALSE))]
      [] body.kind = "object" ->
           [retval |-> <<>>, result |-> Raised(PythonError("TypeError"))]
      [] OTHER ->
           [retval |-> ListActivities(body.items), result |-> Returned]

\* A classification that files a 401 under Authorization, as the download does.
UploadOutcomeAuthorization(status) ==
    IF status # 200
    THEN [retval |-> <<>>,
          result |-> Raised(IF status = 401
                            THEN APIException(TRUE, "Authorization", TRUE)
                            ELSE APIException(FALSE, "none", FALSE))]
    ELSE [retval |-> <<"AcId">>, result |-> Returned]

\* UploadActivity from the response on, in either mode.
UploadOutcome(status) ==
    IF status # 200
    THEN [retval |-> <<>>,
          result |-> Raised(IF status = 401
                            THEN APIException(TRUE, "AccountExpired", TRUE)
                            ELSE APIException(FALSE, "none", FALSE))]
    ELSE [retval |-> <<"AcId">>, result |-> Returned]

\* del_res.raise_for_status(): HTTPError for 4xx and 5xx.
DeleteOutcome(status) ==
    IF status >= 400 /\ status < 600
    THEN [retval |-> <<>>, result |-> Raised(PythonError("HTTPError"))]
    ELSE [retval |-> <<>>, result |-> Returned]

\* The responses of the activity-detail endpoint the callers of Spec receive.
SampleDetailBodies ==
    {[Comment |-> "", HasGps |-> FALSE, IsPublic |-> TRUE, Points |-> <<>>],
     [Comment |-> "ride", HasGps |-> TRUE, IsPublic |-> FALSE,
      Points |-> <<[Pause |-> Null, Speed |-> 36], [Pause |-> "p", Speed |-> 0],
                   [Pause |-> Null, Speed |-> 0], [Pause |-> Null, Speed |-> 36]>>]}

Operations == {"DownloadActivityList", "DownloadActivity", "UploadActivity", "DeleteActivity"}

\* The activities an operation is handed; the list and delete operations take none.
ActivitiesOf(o) ==
    IF o \in {"UploadActivity", "DownloadActivity"} THEN ActivityInputs
    ELSE {ActivityStub(TRUE)}

\* A caller enters an operation; each begins with self._getAuthHeaders(serviceRecord).
Call(p, o, a, act) ==
    /\ pc[p] = "idle"
    /\ pc' = [pc EXCEPT ![p] = "auth_get"]
    /\ op' = [op EXCEPT ![p] = o]
    /\ acct' = [acct EXCEPT ![p] = a]
    /\ activity' = [activity EXCEPT ![p] = act]
    /\ tokenStatus' = [tokenStatus EXCEPT ![p] = 0]
    /\ apiStatus' = [apiStatus EXCEPT ![p] = 0]
    /\ expiresIn' = [expiresIn EXCEPT ![p] = 0]
    /\ headers' = [headers EXCEPT ![p] = NoToken]
    /\ sent' = [sent EXCEPT ![p] = <<>>]
    /\ retval' = [retval EXCEPT ![p] = <<>>]
    /\ result' = [result EXCEPT ![p] = Pending]
    /\ UNCHANGED <<shared, authInfo, refresh, tokenItem, dl, ul>>

\* A DeleteCachedData that clears the records of every account.
DeleteCachedDataOfAll(p, a) ==
    /\ pc[p] = "idle"
    /\ tokenCache' = [k \in Accounts |-> NoEntry]
    /\ op' = [op EXCEPT ![p] = "DeleteCachedData"]
    /\ acct' = [acct EXCEPT ![p] = a]
    /\ activity' = [activity EXCEPT ![p] = ActivityStub(TRUE)]
    /\ tokenStatus' = [tokenStatus EXCEPT ![p] = 0]
    /\ apiStatus' = [apiStatus EXCEPT ![p] = 0]
    /\ expiresIn' = [expiresIn EXCEPT ![p] = 0]
    /\ headers' = [headers EXCEPT ![p] = NoToken]
    /\ sent' = [sent EXCEPT ![p] = <<>>]
    /\ retval' = [retval EXCEPT ![p] = <<>>]
    /\ result' = [result EXCEPT ![p] = Returned]
    /\ UNCHANGED <<now, ticks, issued, binding, pc, Locals, dl, ul>>

\* DeleteCachedData: self._tokenCache.Delete(serviceRecord.ExternalID)
DeleteCachedData(p, a) ==
    /\ pc[p] = "idle"
    /\ tokenCache' = CacheDelete(tokenCache, a)
    /\ op' = [op EXCEPT ![p] = "DeleteCachedData"]
    /\ acct' = [acct EXCEPT ![p] = a]
    /\ activity' = [activity EXCEPT ![p] = ActivityStub(TRUE)]
    /\ tokenStatus' = [tokenStatus EXCEPT ![p] = 0]
    /\ apiStatus' = [apiStatus EXCEPT ![p] = 0]
    /\ expiresIn' = [expiresIn EXCEPT ![p] = 0]
    /\ headers' = [headers EXCEPT ![p] = NoToken]
    /\ sent' = [sent EXCEPT ![p] = <<>>]
    /\ retval' = [retval EXCEPT ![p] = <<>>]
    /\ result' = [result EXCEPT ![p] = Returned]
    /\ UNCHANGED <<now, ticks, issued, binding, pc, Locals, dl, ul>>

\* The request of an operation and what the operation makes of the response.
Finish(p, endpoint, status, outcome) ==
    /\ sent' = [sent EXCEPT ![p] = Append(@, endpoint)]
    /\ apiStatus' = [apiStatus EXCEPT ![p] = status]
    /\ retval' = [retval EXCEPT ![p] = outcome.retval]
    /\ Leave(p, outcome.result)
    /\ UNCHANGED <<shared, op, acct, tokenStatus, headers, dl, ul>>

\* requests.get(BaseUrl + "/api/activity/list...") and the loop over the items.
ListRequest(p, status, body) ==
    /\ pc[p] = "api" /\ op[p] = "DownloadActivityList"
    /\ Finish(p, "list", status, ListOutcome(status, body))
    /\ UNCHANGED activity

\* requests.get(BaseUrl + "/api/activity/" + activityId) and the decoding.
DetailRequest(p, status, body) ==
    /\ pc[p] = "api" /\ op[p] = "DownloadActivity"
    /\ LET out == DownloadOutcome(activity[p], status, body)
       IN /\ Finish(p, "detail", status, [retval |-> <<>>, result |-> out.result])
          /\ activity' = [activity EXCEPT ![p] = out.activity]

\* requests.post(BaseUrl + "/api/activity") in either mode.
UploadRequest(p, status) ==
    /\ pc[p] = "api" /\ op[p] = "UploadActivity"
    /\ Finish(p, "create", status, UploadOutcome(status))
    /\ UNCHANGED activity

\* requests.delete(BaseUrl + "/api/activity/%s" % uploadId)
DeleteRequest(p, status) ==
    /\ pc[p] = "api" /\ op[p] = "DeleteActivity"
    /\ Finish(p, "delete", status, DeleteOutcome(status))
    /\ UNCHANGED activity

\* ------------------------------------------------ UploadActivity: encoding
\* Python's None for a number or an object; a value that is there is <<v>>.
NoValue == <<>>
Some(v) == <<v>>

\* Truthiness of a number: None and 0 are falsy.
Truthy(x) == x # NoValue /\ x[1] # 0

\* Truthiness of a string: None and "" are falsy.
TruthyStr(s) == s # None /\ s # ""

\* How many base units (seconds, meters) one unit is.
UnitFactor(units) ==
    CASE units = "Seconds" -> 1
      [] units = "Minutes" -> 60
      [] units = "Meters" -> 1
      [] units = "Kilometers" -> 1000

\* ActivityStatistic.asUnits: the statistic in other units, None staying None.
AsUnits(stat, units) ==
    [Units |-> units,
     Value |-> IF stat.Value = NoValue THEN NoValue
               ELSE Some((stat.Value[1] * UnitFactor(stat.Units)) \div UnitFactor(units))]

\* _resolveDuration
ResolveDuration(obj) ==
    IF obj.Stats.TimerTime.Value # NoValue
    THEN AsUnits(obj.Stats.TimerTime, "Seconds").Value[1]
    ELSE IF obj.Stats.MovingTime.Value # NoValue
    THEN AsUnits(obj.Stats.MovingTime, "Seconds").Value[1]
    ELSE obj.EndTime - obj.StartTime

\* A resolution that counts a missing moving time as no movement at all.
ResolvePauseFromTimer(obj) ==
    IF obj.Stats.TimerTime.Value # NoValue
    THEN AsUnits(obj.Stats.TimerTime, "Seconds").Value[1]
         - (IF obj.Stats.MovingTime.Value # NoValue
            THEN AsUnits(obj.Stats.MovingTime, "Seconds").Value[1] ELSE 0)
    ELSE 0

\* _resolvePause
ResolvePause(obj) ==
    IF obj.Stats.TimerTime.Value # NoValue /\ obj.Stats.MovingTime.Value # NoValue
    THEN AsUnits(obj.Stats.TimerTime, "Seconds").Value[1]
         - AsUnits(obj.Stats.MovingTime, "Seconds").Value[1]
    ELSE 0

\* A reverse table that has lost its entry for Snowboarding.
ReverseActivityMappingsWithoutSnowboarding ==
    [Running |-> 4, Cycling |-> 3, Walking |-> 9, MountainBiking |-> 2, Hiking |-> 5,
     CrossCountrySkiing |-> 12, DownhillSkiing |-> 13, Skating |-> 11,
     Swimming |-> 6, Elliptical |-> 10, Other |-> 99]

\* mapping common -> powertraxx
ReverseActivityMappings ==
    [Running |-> 4, Cycling |-> 3, Walking |-> 9, MountainBiking |-> 2, Hiking |-> 5,
     CrossCountrySkiing |-> 12, DownhillSkiing |-> 13, Snowboarding |-> 22, Skating |-> 11,
     Swimming |-> 6, Elliptical |-> 10, Other |-> 99]

\* datetime.isoformat(): a string that spells the instant out.
IsoFormat(t) == <<"iso", t>>

\* time.mktime(utc.timetuple()): the UTC wall-clock fields are read as local
\* time, so the epoch comes out shifted by the server's UTC offset.
MkTime(t, offset) == t - offset

\* Activity.GetFlatWaypoints: the waypoints of all laps, in order.
RECURSIVE GetFlatWaypoints(_)
GetFlatWaypoints(laps) ==
    IF laps = <<>> THEN <<>>
    ELSE laps[1].Waypoints \o GetFlatWaypoints(Tail(laps))

\* A mode choice that looks at the waypoints rather than at the GPS flag.
SummaryModeWithoutWaypoints(act) == GetFlatWaypoints(act.Laps) = <<>>

\* if not activity.GPS
SummaryMode(act) == ~act.GPS

\* The activity_data of the branch without GPS; "distance" is assigned with a
\* trailing comma, a one-element tuple.
SummaryData(act) ==
    [name |-> act.Name,
     comment |-> act.Notes,
     date |-> IsoFormat(act.StartTime),
     share |-> ~act.Private,
     duration |-> ResolveDuration(act),
     pause |-> ResolvePause(act),
     sportType |-> ReverseActivityMappings[act.Type]]
    @@ (IF act.Stats.Distance # NoValue
        THEN "distance" :> <<AsUnits(act.Stats.Distance[1], "Meters").Value>>
        ELSE <<>>)

\* The item of one waypoint: a field is written when its value is truthy.
EncodeWaypoint(wp, offset) ==
    (IF wp.Location # NoValue /\ Truthy(wp.Location[1].Latitude)
           /\ Truthy(wp.Location[1].Longitude)
     THEN ("lat" :> wp.Location[1].Latitude[1]) @@ ("lon" :> wp.Location[1].Longitude[1])
     ELSE <<>>)
    @@ (IF wp.Location # NoValue /\ Truthy(wp.Location[1].Altitude)
        THEN "ele" :> wp.Location[1].Altitude[1] ELSE <<>>)
    @@ (IF wp.Timestamp # NoValue
        THEN "timestampValue" :> MkTime(wp.Timestamp[1], offset) ELSE <<>>)
    @@ (IF Truthy(wp.HR) THEN "heartrate" :> wp.HR[1] ELSE <<>>)
    @@ (IF Truthy(wp.Speed) THEN "speed" :> wp.Speed[1] ELSE <<>>)
    @@ (IF Truthy(wp.Distance) THEN "distance" :> wp.Distance[1] ELSE <<>>)
    @@ (IF Truthy(wp.Cadence) THEN "cadence" :> wp.Cadence[1] ELSE <<>>)
    @@ (IF Truthy(wp.RunCadence) THEN "steps" :> wp.RunCadence[1] ELSE <<>>)
    @@ (IF Truthy(wp.Power) THEN "power" :> wp.Power[1] ELSE <<>>)

\* The activity_data of the branch with GPS.
GpsData(act, offset) ==
    LET flat == GetFlatWaypoints(act.Laps)
    IN [activity |->
            (IF TruthyStr(act.Name) THEN "name" :> act.Name ELSE <<>>)
            @@ (IF TruthyStr(act.Notes) THEN "comment" :> act.Notes ELSE <<>>)
            @@ (IF act.Stationary THEN "indoor" :> TRUE ELSE <<>>)
            @@ ("sportType" :> ReverseActivityMappings[act.Type]),
        activityRawFormatList |-> [i \in 1..Len(flat) |-> EncodeWaypoint(flat[i], offset)],
        start_time |-> IsoFormat(act.StartTime),
        share |-> ~act.Private]

\* UploadActivity up to its _getAuthHeaders call: the payload, or the KeyError
\* of a type the reverse table does not have.
EncodeOutcome(act, offset) ==
    IF act.Type \notin DOMAIN ReverseActivityMappings
    THEN [data |-> <<>>, result |-> Raised(PythonError("KeyError"))]
    ELSE [data |-> IF SummaryMode(act) THEN SummaryData(act) ELSE GpsData(act, offset),
          result |-> Pending]

\* ------------------------------------------------- UploadActivity: inputs
\* Longest flattened waypoint list of an uploaded activity (SpecUpload).
MaxWaypoints == 2

\* UTC offsets of the server's local time zone, in seconds.
ServerUtcOffsets == {0, 3600}

\* Locations: none, a full one, a latitude without longitude at altitude 0, a
\* point on the equator without altitude.
LocationInputs ==
    {NoValue,
     Some([Latitude |-> Some(45), Longitude |-> Some(7), Altitude |-> Some(300)]),
     Some([Latitude |-> Some(45), Longitude |-> NoValue, Altitude |-> Some(0)]),
     Some([Latitude |-> Some(0), Longitude |-> Some(7), Altitude |-> NoValue])}

\* Waypoints: the sensor fields are all absent, all 0 or all 5; a waypoint that
\* has readings has a timestamp.
WaypointInputs ==
    {[Location |-> l, Timestamp |-> IF v = NoValue THEN NoValue ELSE Some(1000),
      HR |-> v, Speed |-> v, Distance |-> v, Cadence |-> v, RunCadence |-> v,
      Power |-> v] : l \in LocationInputs, v \in {NoValue, Some(0), Some(5)}}

\* The lap lists of at most n waypoints: no lap, one lap, or two laps cut anywhere.
LapInputs(n) ==
    {<<>>} \cup
    UNION {{<<[Waypoints |-> flat]>>} \cup
           {<<[Waypoints |-> SubSeq(flat, 1, k)],
              [Waypoints |-> SubSeq(flat, k + 1, Len(flat))]>> : k \in 0..Len(flat)}
             : flat \in UNION {[1..k -> WaypointInputs] : k \in 0..n}}

\* Timer-time and moving-time statistics: no value, 0 s, 600 s, 8 min.
StatInputs ==
    {[Units |-> "Seconds", Value |-> NoValue], [Units |-> "Seconds", Value |-> Some(0)],
     [Units |-> "Seconds", Value |-> Some(600)], [Units |-> "Minutes", Value |-> Some(8)]}

\* Distance statistics: None, a statistic without a value, 5 km.
DistanceInputs ==
    {NoValue, Some([Units |-> "Meters", Value |-> NoValue]),
     Some([Units |-> "Kilometers", Value |-> Some(5)])}

\* Activities without waypoints: metadata and statistics vary. Rowing is a
\* canonical type the service does not list in SupportedActivities.
SummaryInputs ==
    [Name : {None, "", "run"}, Notes : {None, "note"}, StartTime : {1000},
     EndTime : {1900}, Private : BOOLEAN, GPS : BOOLEAN, Stationary : BOOLEAN,
     Type : {"Running", "Rowing"},
     Stats : [TimerTime : StatInputs, MovingTime : StatInputs, Distance : DistanceInputs],
     Laps : {<<>>}]

\* Activities whose laps vary.
TrackInputs(n) ==
    [Name : {"run"}, Notes : {None}, StartTime : {1000}, EndTime : {1900},
     Private : {FALSE}, GPS : BOOLEAN, Stationary : {FALSE}, Type : {"Running"},
     Stats : [TimerTime : {[Units |-> "Seconds", Value |-> Some(600)]},
              MovingTime : {[Units |-> "Seconds", Value |-> NoValue]},
              Distance : {NoValue}],
     Laps : LapInputs(n)]

\* The sport-type strings of activity-list items: the keys of _activityMappings,
\* a string that is none of them, JSON null.
SportTypes ==
    {"run", "bicycle", "racingbicycle", "mountainbike", "walking", "hike", "snowboard",
     "skialpin", "classicskiing", "skating", "swim", "elliptical", "other", "yoga", Null}

NoItem == [Id |-> None, SportType |-> None]

\* An activity DownloadActivityList has yet to give its type.
Untyped ==
    [Name |-> "run", Notes |-> None, StartTime |-> 1000, EndTime |-> 1900,
     Private |-> FALSE, GPS |-> FALSE, Stationary |-> FALSE, Type |-> None,
     Stats |-> [TimerTime |-> [Units |-> "Seconds", Value |-> NoValue],
                MovingTime |-> [Units |-> "Seconds", Value |-> NoValue],
                Distance |-> Some([Units |-> "Meters", Value |-> Some(5000)])],
     Laps |-> <<>>]

\* Nothing is being uploaded.
NoUpload ==
    [stage |-> "idle", item |-> NoItem, activity |-> Untyped, offset |-> 0,
     data |-> <<>>, sent |-> <<>>, status |-> 0, retval |-> <<>>, result |-> Pending]

\* ------------------------------------------------ UploadActivity: actions
\* DownloadActivityList gives the activity of a list item its type.
ListItem ==
    /\ ul.stage = "item"
    /\ ul' = [ul EXCEPT !.stage = "activity",
                        !.activity.Type = ListActivities(<<ul.item>>)[1].Type]
    /\ UNCHANGED <<shared, pc, op, acct, Locals, tokenStatus, headers, apiStatus,
                   sent, activity, retval, result, dl>>

\* UploadActivity builds activity_data.
Encode ==
    /\ ul.stage = "activity"
    /\ LET out == EncodeOutcome(ul.activity, ul.offset)
       IN ul' = [ul EXCEPT !.stage = IF out.result = Pending THEN "encoded" ELSE "done",
                           !.data = out.data, !.result = out.result]
    /\ UNCHANGED <<shared, pc, op, acct, Locals, tokenStatus, headers, apiStatus,
                   sent, activity, retval, result, dl>>

\* requests.post(BaseUrl + "/api/activity", data=json.dumps(activity_data)) with
\* the headers _getAuthHeaders returned, and what UploadActivity makes of the answer.
Post(status) ==
    /\ ul.stage = "encoded"
    /\ LET out == UploadOutcome(status)
       IN ul' = [ul EXCEPT !.stage = "done",
                           !.sent = Append(@, [endpoint |-> "create", data |-> ul.data]),
                           !.status = status, !.retval = out.retval,
                           !.result = out.result]
    /\ UNCHANGED <<shared, pc, op, acct, Locals, tokenStatus, headers, apiStatus,
                   sent, activity, retval, result, dl>>

\* ------------------------------------------------------ the specifications
\* Each account was authorized at time 0 (RetrieveAuthorizationToken); nothing
\* is cached yet.
Init ==
    /\ now = 0
    /\ ticks = 0
    /\ issued = 0
    /\ tokenCache = [a \in Accounts |-> NoEntry]
    /\ \E e \in ExpiresInValues :
          binding = [a \in Accounts |-> TokenFromResponse(a, a, e, 0)]
    /\ pc = [p \in Procs |-> "idle"]
    /\ op = [p \in Procs |-> "none"]
    /\ acct = [p \in Procs |-> 1]
    /\ authInfo = [p \in Procs |-> NoRecord]
    /\ refresh = [p \in Procs |-> NoToken]
    /\ expiresIn = [p \in Procs |-> 0]
    /\ tokenItem = [p \in Procs |-> NoRecord]
    /\ tokenStatus = [p \in Procs |-> 0]
    /\ headers = [p \in Procs |-> NoToken]
    /\ apiStatus = [p \in Procs |-> 0]
    /\ sent = [p \in Procs |-> <<>>]
    /\ activity = [p \in Procs |-> ActivityStub(TRUE)]
    /\ retval = [p \in Procs |-> <<>>]
    /\ result = [p \in Procs |-> Pending]
    /\ dl = [stage |-> "idle", status |-> 200, body |-> CHOOSE b \in SampleDetailBodies : b.Points = <<>>,
             activity |-> ActivityStub(TRUE), result |-> Pending]
    /\ ul = NoUpload

\* Concurrent callers of _getAuthHeaders and DeleteCachedData.
Next ==
    \/ \E p \in Procs, a \in Accounts :
          Call(p, "GetAuthHeaders", a, ActivityStub(TRUE))
    \/ \E p \in Procs, a \in Accounts : DeleteCachedData(p, a)
    \/ \E p \in Procs : AuthGet(p)
    \/ \E p \in Procs : AuthCheck(p)
    \/ \E p \in Procs : AuthPost(p)
    \/ \E p \in Procs, s \in RefreshStatusCodes : AuthFail(p, s)
    \/ \E p \in Procs, e \in ExpiresInValues : AuthOk(p, e)
    \/ \E p \in Procs : AuthSet(p)
    \/ \E p \in Procs : AuthEnsure(p)
    \/ \E d \in TickSteps : Tick(d)

Spec == Init /\ [][Next]_vars

\* One caller running the operations, each from its _getAuthHeaders call to
\* the end of its request.
NextOps ==
    \/ \E o \in Operations, a \in Accounts, act \in ActivityInputs :
          act \in ActivitiesOf(o) /\ Call(Caller, o, a, act)
    \/ \E a \in Accounts : DeleteCachedData(Caller, a)
    \/ AuthGet(Caller)
    \/ AuthCheck(Caller)
    \/ AuthPost(Caller)
    \/ \E s \in RefreshStatusCodes : AuthFail(Caller, s)
    \/ \E e \in ExpiresInValues : AuthOk(Caller, e)
    \/ AuthSet(Caller)
    \/ AuthEnsure(Caller)
    \/ \E s \in ApiStatusCodes, b \in ListBodies : ListRequest(Caller, s, b)
    \/ \E s \in ApiStatusCodes, b \in SampleDetailBodies : DetailRequest(Caller, s, b)
    \/ \E s \in ApiStatusCodes : UploadRequest(Caller, s)
    \/ \E s \in ApiStatusCodes : DeleteRequest(Caller, s)
    \/ \E d \in TickSteps : Tick(d)

SpecOps == Init /\ [][NextOps]_vars

\* One activity-detail response, decoded into a fresh activity.
InitTranslate ==
    /\ now = 0
    /\ ticks = 0
    /\ issued = 0
    /\ tokenCache = [a \in Accounts |-> NoEntry]
    /\ binding = [a \in Accounts |-> TokenFromResponse(a, a, 3600, 0)]
    /\ pc = [p \in Procs |-> "idle"]
    /\ op = [p \in Procs |-> "none"]
    /\ acct = [p \in Procs |-> 1]
    /\ authInfo = [p \in Procs |-> NoRecord]
    /\ refresh = [p \in Procs |-> NoToken]
    /\ expiresIn = [p \in Procs |-> 0]
    /\ tokenItem = [p \in Procs |-> NoRecord]
    /\ tokenStatus = [p \in Procs |-> 0]
    /\ headers = [p \in Procs |-> NoToken]
    /\ apiStatus = [p \in Procs |-> 0]
    /\ sent = [p \in Procs |-> <<>>]
    /\ activity = [p \in Procs |-> ActivityStub(TRUE)]
    /\ retval = [p \in Procs |-> <<>>]
    /\ result = [p \in Procs |-> Pending]
    /\ \E s \in ApiStatusCodes, b \in DetailBodies(MaxPoints), g \in BOOLEAN :
          dl = [stage |-> "response", status |-> s, body |-> b,
                activity |-> ActivityStub(g), result |-> Pending]
    /\ ul = NoUpload

\* _downloadActivity handles the response.
Decode ==
    /\ dl.stage = "response"
    /\ LET out == DownloadOutcome(dl.activity, dl.status, dl.body)
       IN dl' = [dl EXCEPT !.stage = "done", !.activity = out.activity,
                           !.result = out.result]
    /\ UNCHANGED <<shared, pc, op, acct, Locals, tokenStatus, headers, apiStatus,
                   sent, activity, retval, result, ul>>

NextTranslate == Decode

SpecTranslate == InitTranslate /\ [][NextTranslate]_vars

\* One activity, encoded and posted: handed over as it is, or first given its
\* type by DownloadActivityList.
InitUpload ==
    /\ now = 0
    /\ ticks = 0
    /\ issued = 0
    /\ tokenCache = [a \in Accounts |-> NoEntry]
    /\ binding = [a \in Accounts |-> TokenFromResponse(a, a, 3600, 0)]
    /\ pc = [p \in Procs |-> "idle"]
    /\ op = [p \in Procs |-> "none"]
    /\ acct = [p \in Procs |-> 1]
    /\ authInfo = [p \in Procs |-> NoRecord]
    /\ refresh = [p \in Procs |-> NoToken]
    /\ expiresIn = [p \in Procs |-> 0]
    /\ tokenItem = [p \in Procs |-> NoRecord]
    /\ tokenStatus = [p \in Procs |-> 0]
    /\ headers = [p \in Procs |-> NoToken]
    /\ apiStatus = [p \in Procs |-> 0]
    /\ sent = [p \in Procs |-> <<>>]
    /\ activity = [p \in Procs |-> ActivityStub(TRUE)]
    /\ retval = [p \in Procs |-> <<>>]
    /\ result = [p \in Procs |-> Pending]
    /\ dl = [stage |-> "idle", status |-> 200, body |-> CHOOSE b \in SampleDetailBodies : b.Points = <<>>,
             activity |-> ActivityStub(TRUE), result |-> Pending]
    /\ \/ \E act \in SummaryInputs :
             ul = [NoUpload EXCEPT !.stage = "activity", !.activity = act]
       \/ \E act \in TrackInputs(MaxWaypoints), o \in ServerUtcOffsets :
             ul = [NoUpload EXCEPT !.stage = "activity", !.activity = act, !.offset = o]
       \/ \E s \in SportTypes :
             ul = [NoUpload EXCEPT !.stage = "item",
                                   !.item = [Id |-> "a1", SportType |-> s]]

NextUpload ==
    \/ ListItem
    \/ Encode
    \/ \E s \in ApiStatusCodes : Post(s)

SpecUpload == InitUpload /\ [][NextUpload]_vars

\* ------------------------------------------------------------- the claims
\* The positions inside _getAuthHeaders.
AuthPcs == {"auth_get", "auth_check", "auth_post", "auth_resp", "auth_set", "auth_ensure"}

\* Caller p takes a step of its own out of position at.
Steps(p, at) == pc[p] = at /\ pc'[p] # at

\* C1: single-flight refresh: no two callers of the same account ever have
\* exchanges in flight that submitted the same refresh credential.
C1_SingleFlightRefresh ==
    \A p \in Procs, q \in Procs :
        (p # q /\ pc[p] = "auth_resp" /\ pc[q] = "auth_resp" /\ acct[p] = acct[q])
            => refresh[p] # refresh[q]

\* C2: once its exchange was answered 200, _getAuthHeaders returns the headers of
\* the new access token, which the Token Store and the account binding then hold;
\* it does not end in an error.
C2_RefreshReturnsHeaders ==
    \A p \in Procs :
        (tokenStatus[p] = 200 /\ pc[p] \notin AuthPcs)
            => /\ headers[p] # NoToken
               /\ result[p].kind # "error" \/ apiStatus[p] # 0

\* C3: a lookup that finds a record in the Token Store returns the headers of
\* that record's access token, and issues no exchange while now < its expiresAt.
C3_CacheHitReturnsStoredToken ==
    [][\A p \in Procs :
          (Steps(p, "auth_check") /\ authInfo[p] # NoRecord)
             => /\ headers'[p] # NoToken => headers'[p] = authInfo[p].AccessToken
                /\ now < authInfo[p].ExpirationDate => pc'[p] # "auth_post"]_vars

\* C4: a token item gets expiresAt = t + E - 30, and a stored token is
\* reused exactly when now < expiresAt and refreshed for every now >= expiresAt.
C4_ExpiredFromExpirationDate ==
    [][\A p \in Procs :
          /\ Steps(p, "auth_resp") /\ pc'[p] = "auth_set"
                => tokenItem'[p].ExpirationDate = now + expiresIn'[p] - 30
          /\ (Steps(p, "auth_check") /\ authInfo[p] # NoRecord)
                => (pc'[p] = "auth_post" <=> now >= binding[acct[p]].ExpirationDate)]_vars

\* What _getAuthHeaders does at C4's boundary: a token item gets expiresAt =
\* t + E - 30; the credential is reused exactly when the Token Store returned an
\* entry for the account and now <= expiresAt, and refreshed when now > expiresAt
\* or the store returned none; the store returns an entry only within 29 minutes
\* of its being set.
ExpiredAfterExpirationDate ==
    [][\A p \in Procs :
          /\ Steps(p, "auth_resp") /\ pc'[p] = "auth_set"
                => tokenItem'[p].ExpirationDate = now + expiresIn'[p] - 30
          /\ Steps(p, "auth_get")
                => (authInfo'[p] # NoRecord
                      <=> /\ tokenCache[acct[p]] # NoEntry
                          /\ now - tokenCache[acct[p]].setAt < 29 * 60)
          /\ Steps(p, "auth_check")
                => (pc'[p] # "auth_post"
                      <=> /\ authInfo[p] # NoRecord
                          /\ now <= binding[acct[p]].ExpirationDate)]_vars

\* The boundary of C4: a call finds the stored token at the very instant of its expiration
\* date (30 seconds after a token with expires_in = 60 was issued) and reuses it.
ReusedAtExpirationDate ==
    \E p \in Procs :
        /\ pc[p] = "api"
        /\ tokenStatus[p] = 0
        /\ headers[p] # NoToken
        /\ now = binding[acct[p]].ExpirationDate
        /\ now = tokenCache[acct[p]].setAt + 60 - 30

\* C5: a refresh answered 400..499 ends in an Authorization error with block and
\* intervention_required set, any other non-200 status in a plain error with
\* neither; no headers are returned either way.
C5_RefreshFailureClassification ==
    \A p \in Procs :
        (tokenStatus[p] # 0 /\ tokenStatus[p] # 200)
            => /\ pc[p] = "idle"
               /\ headers[p] = NoToken
               /\ result[p].kind = "error"
               /\ result[p].err.exc = "APIException"
               /\ IF tokenStatus[p] \in 400..499
                  THEN /\ result[p].err.block
                       /\ result[p].err.uex = "Authorization"
                       /\ result[p].err.intervention
                  ELSE /\ ~result[p].err.block
                       /\ result[p].err.uex = "none"
                       /\ ~result[p].err.intervention

\* C5's case: an exchange answered 400 has ended the call with the blocking error.
C5_Witness ==
    \E p \in Procs : tokenStatus[p] = 400 /\ result[p].err.block /\ sent[p] = <<"token">>

\* C6: after a 401 answer to its API request an operation has failed with a
\* blocking error that requires intervention.
C6_Unauthorized401Blocks ==
    \A p \in Procs :
        apiStatus[p] = 401
            => /\ result[p].kind = "error"
               /\ result[p].err.block
               /\ result[p].err.intervention
               /\ result[p].err.uex \in {"Authorization", "AccountExpired"}

\* C10: an activity-detail request answered 401 or 403 ends DownloadActivity in a
\* blocking Authorization error requiring intervention, any other non-200 status
\* in a non-blocking error, and the passed-in activity is as it was.
C10_DownloadFailureModes ==
    [][\A p \in Procs :
          (Steps(p, "api") /\ op[p] = "DownloadActivity" /\ apiStatus'[p] # 200)
             => /\ activity'[p] = activity[p]
                /\ result'[p].kind = "error"
                /\ result'[p].err.exc = "APIException"
                /\ IF apiStatus'[p] \in {401, 403}
                   THEN /\ result'[p].err.block
                        /\ result'[p].err.uex = "Authorization"
                        /\ result'[p].err.intervention
                   ELSE /\ ~result'[p].err.block
                        /\ result'[p].err.uex = "none"
                        /\ ~result'[p].err.intervention]_vars

\* C10's case: a download answered 403 has failed and left the activity alone.
C10_Witness ==
    \E p \in Procs :
        /\ op[p] = "DownloadActivity"
        /\ apiStatus[p] = 403
        /\ result[p].kind = "error"
        /\ sent[p][Len(sent[p])] = "detail"
        /\ activity[p] \in ActivityInputs

\* A 200 activity-detail response has been decoded.
Decoded == dl.stage = "done" /\ dl.status = 200

\* The points of the response and the waypoints of the decoded activity's first lap.
Points == dl.body.Points
Waypoints == dl.activity.Laps[1].Waypoints
Tags == [i \in 1..Len(Waypoints) |-> Waypoints[i].Type]
Pauses == [i \in 1..Len(Points) |-> Points[i].Pause]

\* C7: the decoded activity has one lap with one waypoint per point, in order;
\* with two points or more the first is Start, the last End, and an interior
\* waypoint is Pause if its point has a pause marker, else Resume if the point
\* before it has one, else Regular.
C7_WaypointTagging ==
    Decoded =>
        /\ Len(dl.activity.Laps) = 1
        /\ Len(Waypoints) = Len(Points)
        /\ \A i \in 1..Len(Points) : Waypoints[i].Speed * 36 = Points[i].Speed * 10
        /\ Len(Points) >= 2 =>
             /\ Tags[1] = "Start"
             /\ Tags[Len(Points)] = "End"
             /\ \A i \in 2..(Len(Points) - 1) :
                   Tags[i] = IF Pauses[i] # Null THEN "Pause"
                             ELSE IF Pauses[i - 1] # Null THEN "Resume"
                             ELSE "Regular"

\* C7's case: [null, set, null, null] has been decoded to [Start, Pause, Resume, End].
C7_Witness ==
    /\ Decoded
    /\ Pauses = <<Null, "p", Null, Null>>
    /\ Tags = <<"Start", "Pause", "Resume", "End">>

\* C8: in the decoded sequence a Pause followed by a waypoint whose point has
\* no pause marker is followed by a Resume, and every Resume follows a Pause.
C8_PauseResumeAdjacent ==
    Decoded =>
        /\ \A i \in 1..(Len(Points) - 1) :
              (Tags[i] = "Pause" /\ Pauses[i + 1] = Null) => Tags[i + 1] = "Resume"
        /\ \A i \in 1..Len(Points) :
              Tags[i] = "Resume" => (i > 1 /\ Tags[i - 1] = "Pause")

\* C8 as amended: a Pause followed by a waypoint whose point has no pause marker
\* is followed by a Resume unless that waypoint is the last one, which is End;
\* every Resume follows a waypoint whose point has a pause marker, tagged Pause
\* unless it is the first one, which is Start.
C8_PauseResumeInside ==
    Decoded =>
        /\ \A i \in 1..(Len(Points) - 1) :
              (Tags[i] = "Pause" /\ Pauses[i + 1] = Null)
                 => \/ Tags[i + 1] = "Resume"
                    \/ i + 1 = Len(Points) /\ Tags[i + 1] = "End"
        /\ \A i \in 1..Len(Points) :
              Tags[i] = "Resume"
                 => /\ i > 1
                    /\ Pauses[i - 1] # Null
                    /\ \/ Tags[i - 1] = "Pause"
                       \/ i - 1 = 1 /\ Tags[i - 1] = "Start"

\* C8's case: [set, null, set, null] has been decoded to [Start, Resume, Pause, End],
\* a Resume after the Start and a Pause before the End.
C8_Witness ==
    /\ Decoded
    /\ Pauses = <<"p", Null, "p", Null>>
    /\ Tags = <<"Start", "Resume", "Pause", "End">>

\* C9: the activity is Stationary exactly when it has at most one waypoint; a
\* Stationary activity has no Start and no End, any other has Start on its first
\* waypoint only and End on its last only.
C9_StationaryDetection ==
    Decoded =>
        /\ dl.activity.Stationary <=> Len(Waypoints) <= 1
        /\ dl.activity.Stationary =>
              \A i \in 1..Len(Waypoints) : Tags[i] \in {"Pause", "Regular"}
        /\ ~dl.activity.Stationary =>
              \A i \in 1..Len(Waypoints) :
                  /\ Tags[i] = "Start" <=> i = 1
                  /\ Tags[i] = "End" <=> i = Len(Waypoints)

\* C9's case: a single point with a pause marker has been decoded to a
\* Stationary activity whose waypoint is Pause.
C9_Witness ==
    /\ Decoded
    /\ Len(Points) = 1
    /\ dl.activity.Stationary
    /\ Tags = <<"Pause">>

\* The upload has built its payload (and may have posted it).
Encoded == ul.stage = "encoded" \/ ul.status # 0

\* C11: in both modes a 401 answer to the creation POST ends UploadActivity in a
\* blocking AccountExpired error that requires intervention, any other non-200
\* answer in a plain non-blocking error, and an activity id is returned exactly
\* when the answer is 200.
C11_UploadFailureModes ==
    ul.status # 0 =>
        /\ ul.stage = "done"
        /\ ul.retval # <<>> <=> ul.status = 200
        /\ ul.status = 200 => ul.result = Returned
        /\ ul.status # 200 =>
              /\ ul.result.kind = "error"
              /\ ul.result.err.exc = "APIException"
              /\ IF ul.status = 401
                 THEN /\ ul.result.err.block
                      /\ ul.result.err.uex = "AccountExpired"
                      /\ ul.result.err.intervention
                 ELSE /\ ~ul.result.err.block
                      /\ ul.result.err.uex = "none"
                      /\ ~ul.result.err.intervention

\* C11's case: the POST of a point-list payload was answered 401 and the upload
\* has ended in the AccountExpired error, no id returned.
C11_Witness ==
    /\ ul.status = 401
    /\ ul.activity.GPS
    /\ Len(ul.data.activityRawFormatList) = MaxWaypoints
    /\ ul.result.err.uex = "AccountExpired"
    /\ ul.retval = <<>>

\* The keys of the summary-mode payload, "distance" apart.
SummaryKeys == {"name", "comment", "date", "share", "duration", "pause", "sportType"}

\* C12: the payload is the summary one (its seven keys, "distance" when the
\* activity has a distance statistic, no point list) exactly when the activity's
\* GPS flag is off and the point-list one (activity metadata, activityRawFormatList)
\* exactly when it is on; an upload that reaches its request issues exactly one
\* POST to the creation endpoint, carrying that payload.
C12_UploadModeSelection ==
    /\ Encoded =>
          IF ul.activity.GPS
          THEN /\ DOMAIN ul.data = {"activity", "activityRawFormatList", "start_time", "share"}
               /\ "sportType" \in DOMAIN ul.data.activity
          ELSE /\ SummaryKeys \subseteq DOMAIN ul.data
               /\ DOMAIN ul.data \subseteq SummaryKeys \cup {"distance"}
               /\ "distance" \in DOMAIN ul.data <=> ul.activity.Stats.Distance # NoValue
    /\ Len(ul.sent) = IF ul.status # 0 THEN 1 ELSE 0
    /\ ul.status # 0 => ul.sent[1] = [endpoint |-> "create", data |-> ul.data]

\* C12's case: an activity with the GPS flag on and no waypoint at all has been
\* posted once, as a point-list payload with an empty list.
C12_Witness ==
    /\ ul.status = 200
    /\ ul.activity.GPS
    /\ GetFlatWaypoints(ul.activity.Laps) = <<>>
    /\ ul.data.activityRawFormatList = <<>>
    /\ Len(ul.sent) = 1

\* The optional value v is there.
Present(v) == v # NoValue

\* C13: the point list has one record per flattened waypoint, in order, and a
\* record has a field exactly when the waypoint has a value for it, 0 included,
\* a latitude without longitude included.
C13_PointEncoding ==
    (Encoded /\ ul.activity.GPS) =>
        LET flat == GetFlatWaypoints(ul.activity.Laps)
            items == ul.data.activityRawFormatList
            has(i, key) == key \in DOMAIN items[i]
            located(i) == Present(flat[i].Location)
        IN /\ Len(items) = Len(flat)
           /\ \A i \in 1..Len(flat) :
                 /\ has(i, "lat") <=> located(i) /\ Present(flat[i].Location[1].Latitude)
                 /\ has(i, "lon") <=> located(i) /\ Present(flat[i].Location[1].Longitude)
                 /\ has(i, "ele") <=> located(i) /\ Present(flat[i].Location[1].Altitude)
                 /\ has(i, "timestampValue") <=> Present(flat[i].Timestamp)
                 /\ has(i, "heartrate") <=> Present(flat[i].HR)
                 /\ has(i, "speed") <=> Present(flat[i].Speed)
                 /\ has(i, "distance") <=> Present(flat[i].Distance)
                 /\ has(i, "cadence") <=> Present(flat[i].Cadence)
                 /\ has(i, "steps") <=> Present(flat[i].RunCadence)
                 /\ has(i, "power") <=> Present(flat[i].Power)

\* What the encoding loop does for C13's fields: one record per flattened
\* waypoint, in order; a field is written exactly when its value is there and is
\* not 0 (the timestamp: when it is there), latitude and longitude only together.
PointEncodingOfTruthy ==
    (Encoded /\ ul.activity.GPS) =>
        LET flat == GetFlatWaypoints(ul.activity.Laps)
            items == ul.data.activityRawFormatList
            has(i, key) == key \in DOMAIN items[i]
            nonzero(v) == Present(v) /\ v[1] # 0
            located(i) == Present(flat[i].Location)
        IN /\ Len(items) = Len(flat)
           /\ \A i \in 1..Len(flat) :
                 /\ has(i, "lat") <=> /\ located(i)
                                      /\ nonzero(flat[i].Location[1].Latitude)
                                      /\ nonzero(flat[i].Location[1].Longitude)
                 /\ has(i, "lon") <=> has(i, "lat")
                 /\ has(i, "ele") <=> located(i) /\ nonzero(flat[i].Location[1].Altitude)
                 /\ has(i, "timestampValue") <=> Present(flat[i].Timestamp)
                 /\ has(i, "heartrate") <=> nonzero(flat[i].HR)
                 /\ has(i, "speed") <=> nonzero(flat[i].Speed)
                 /\ has(i, "distance") <=> nonzero(flat[i].Distance)
                 /\ has(i, "cadence") <=> nonzero(flat[i].Cadence)
                 /\ has(i, "steps") <=> nonzero(flat[i].RunCadence)
                 /\ has(i, "power") <=> nonzero(flat[i].Power)

\* A waypoint with heart rate 0 has been encoded to a record without "heartrate".
ZeroHeartRateDropped ==
    /\ Encoded /\ ul.activity.GPS
    /\ \E i \in 1..Len(GetFlatWaypoints(ul.activity.Laps)) :
          /\ GetFlatWaypoints(ul.activity.Laps)[i].HR = Some(0)
          /\ "heartrate" \notin DOMAIN ul.data.activityRawFormatList[i]

\* C14: in the summary payload duration is the timer time when it has a value,
\* else the moving time when it has one, else endTime - startTime, in seconds;
\* pause is timer time - moving time when both have a value and 0 otherwise.
C14_DurationPauseResolution ==
    (Encoded /\ ~ul.activity.GPS) =>
        LET timer == ul.activity.Stats.TimerTime
            moving == ul.activity.Stats.MovingTime
            seconds(stat) == IF stat.Units = "Minutes" THEN 60 * stat.Value[1]
                             ELSE stat.Value[1]
        IN /\ ul.data.duration =
                 IF Present(timer.Value) THEN seconds(timer)
                 ELSE IF Present(moving.Value) THEN seconds(moving)
                 ELSE ul.activity.EndTime - ul.activity.StartTime
           /\ ul.data.pause =
                 IF Present(timer.Value) /\ Present(moving.Value)
                 THEN seconds(timer) - seconds(moving)
                 ELSE 0

\* C14's case: only the timer time has a value (600 s): duration 600, pause 0.
C14_Witness ==
    /\ Encoded /\ ~ul.activity.GPS
    /\ ul.activity.Stats.TimerTime.Value = Some(600)
    /\ ul.activity.Stats.MovingTime.Value = NoValue
    /\ ul.data.duration = 600
    /\ ul.data.pause = 0

\* The forward table as the service declares it.
ForwardTable ==
    [run |-> "Running", bicycle |-> "Cycling", racingbicycle |-> "Cycling",
     mountainbike |-> "MountainBiking", walking |-> "Walking", hike |-> "Hiking",
     snowboard |-> "Snowboarding", skialpin |-> "DownhillSkiing",
     classicskiing |-> "CrossCountrySkiing", skating |-> "Skating", swim |-> "Swimming",
     elliptical |-> "Elliptical", other |-> "Other"]

\* C15: DownloadActivityList gives an item whose sport type is in the forward
\* table the tabled type and any other item Other; uploading an activity typed
\* this way never fails on the reverse lookup: it gets as far as its request.
C15_SportTypeMapping ==
    (ul.item # NoItem /\ ul.stage \notin {"idle", "item"}) =>
        /\ ul.activity.Type = IF ul.item.SportType \in DOMAIN ForwardTable
                              THEN ForwardTable[ul.item.SportType]
                              ELSE "Other"
        /\ ul.result.err.exc # "KeyError"
        /\ ul.stage = "done" => ul.status # 0

\* C15's case: a "snowboard" item became a Snowboarding activity, uploaded with
\* sport-type code 22.
C15_Witness ==
    /\ ul.item.SportType = "snowboard"
    /\ ul.activity.Type = "Snowboarding"
    /\ ul.status = 200
    /\ ul.data.sportType = 22

\* The requests to the provider's activity API.
ApiEndpoints == {"list", "detail", "create", "delete"}

\* How many of the requests in seq go to the endpoints in S.
Count(seq, S) == Cardinality({i \in DOMAIN seq : seq[i] \in S})

\* C16: an operation sends its API request only once its _getAuthHeaders call
\* has returned headers; when that call fails the operation has failed with it
\* and has sent no API request.
C16_AuthBeforeRequest ==
    \A p \in Procs :
        /\ (pc[p] = "api" \/ Count(sent[p], ApiEndpoints) > 0) => headers[p] # NoToken
        /\ (op[p] \in Operations /\ pc[p] = "idle" /\ headers[p] = NoToken)
              => /\ result[p].kind = "error"
                 /\ tokenStatus[p] # 0
                 /\ result[p].err = IF tokenStatus[p] = 200
                                    THEN PythonError("AttributeError")
                                    ELSE RefreshError(tokenStatus[p])
                 /\ apiStatus[p] = 0
                 /\ Count(sent[p], ApiEndpoints) = 0

\* C16's case: an upload whose exchange was answered 500 has ended in the
\* exchange's error with the exchange as its only request.
C16_Witness ==
    \E p \in Procs :
        /\ op[p] = "UploadActivity"
        /\ pc[p] = "idle"
        /\ tokenStatus[p] = 500
        /\ result[p].kind = "error"
        /\ sent[p] = <<"token">>

\* C17: whenever no call for an account is under way, the record the Token
\* Store holds for it is the credential of the account binding.
C17_StoreMatchesBinding ==
    \A a \in Accounts :
        ((\A p \in Procs : pc[p] = "idle" \/ acct[p] # a) /\ tokenCache[a] # NoEntry)
            => tokenCache[a].item = binding[a]

C19_FailedRefreshFrame ==
    [][\A p \in Procs :
          (\/ pc[p] = "idle" /\ pc'[p] = "auth_get"
           \/ Steps(p, "auth_get")
           \/ Steps(p, "auth_check")
           \/ Steps(p, "auth_post")
           \/ Steps(p, "auth_resp") /\ tokenStatus'[p] # 200)
             => /\ tokenCache' = tokenCache
                /\ binding' = binding]_vars

\* C19's case: a call found its account's record too old, its exchange was
\* answered 500, and the record and the binding are still those of the earlier
\* refresh.
C19_Witness ==
    \E p \in Procs :
        /\ pc[p] = "idle"
        /\ tokenStatus[p] = 500
        /\ sent[p] = <<"token">>
        /\ tokenCache[acct[p]] # NoEntry
        /\ tokenCache[acct[p]].item = binding[acct[p]]
        /\ binding[acct[p]].AccessToken = NextToken(0)

\* C20: DeleteCachedData empties the Token Store entry of its account and
\* changes no other entry and no binding; a call that finds its account's entry
\* empty sends an exchange, whatever the binding's expiration date.
C20_DeleteCachedDataForcesRefresh ==
    [][/\ (pc' = pc /\ now' = now)
             => \E p \in Procs :
                   /\ op'[p] = "DeleteCachedData"
                   /\ tokenCache' = [tokenCache EXCEPT ![acct'[p]] = NoEntry]
                   /\ binding' = binding
       /\ \A p \in Procs :
          /\ (Steps(p, "auth_get") /\ tokenCache[acct[p]] = NoEntry)
                => authInfo'[p] = NoRecord
          /\ (Steps(p, "auth_check") /\ authInfo[p] = NoRecord)
                => pc'[p] = "auth_post"
          /\ Steps(p, "auth_post")
                => sent'[p] = Append(sent[p], "token")]_vars

\* C20's case: the record of a refresh was deleted while still fresh and the
\* binding's credential unexpired, and the next call has sent an exchange.
C20_Witness ==
    \E p \in Procs :
        /\ pc[p] = "auth_resp"
        /\ sent[p] = <<"token">>
        /\ ticks = 0
        /\ tokenCache[acct[p]] = NoEntry
        /\ binding[acct[p]].AccessToken = NextToken(0)
        /\ now < binding[acct[p]].ExpirationDate
====
